---- MODULE Spec2Model ----
(***************************************************************************)
(* Settlement engine of walicaaa-backend (src/schemas/domain.py):          *)
(* TmpSummary.resolve, bigger / smaller, PaymentSummary.total and          *)
(* tmp_summary, the netting loop PaymentSummaryCollection.exchnange, and   *)
(* the aggregation of an Event (Payment.debt / asset, debt_for_user,       *)
(* assets_for_user, payment_summaries).                                    *)
(*                                                                         *)
(* Users are identified by their id (User.alike compares ids only); the    *)
(* ids of a roster of n users are 1..n.                                    *)
(***************************************************************************)
EXTENDS Integers, Sequences, FiniteSets

\* ---------------------------------------------------------------- bounds
\* Longest list of PaymentSummary handed to exchnange.
MaxUsers == 4
\* Largest magnitude of a per-user net balance in a settlement run.
MaxTotal == 2
\* Largest magnitude of a total handed to a direct resolve call.
MaxArg == 5
\* Most calls of exchnange made on one collection.
MaxCalls == 2
\* Longest list of payments of an Event.
MaxPayments == 1
\* Longest list of payees of a Payment.
MaxPayees == 2
\* Largest price of a Payment.
MaxPrice == 3

VARIABLES
    summaries,  \* PaymentSummaryCollection.__root__ : Seq of PaymentSummary
    tmps,       \* exchnange's local list of TmpSummary (mutated in place)
    exchanges,  \* exchnange's local list of Exchange
    pc,         \* position of exchnange: "ready" | "loop" | "done" | "raised"
    a,          \* receiver of a direct a.resolve(b) call : TmpSummary
    b,          \* argument of a direct a.resolve(b) call : TmpSummary
    args,       \* the totals a and b were constructed with : <<total_a, total_b>>
    ret,        \* Exchange returned by the direct call (NoExchange before / on raise)
    rpc,        \* position of the direct call: "idle" | "call" | "returned" | "raised"
    results,    \* the ExchangeCollections exchnange has returned, in call order
    event,      \* an Event : [users, payments]
    out         \* the last call made on event: [op, arg, raised, value]

vars == <<summaries, tmps, exchanges, pc, a, b, args, ret, rpc, results, event, out>>

\* ------------------------------------------------------------ primitives
\* Python's abs() on int.
Abs(x) == IF x < 0 THEN -x ELSE x

Min(x, y) == IF x <= y THEN x ELSE y

\* Absence of an Exchange (the call has not returned one).
NoExchange == [price |-> 0, payee |-> 0, payer |-> 0]

\* Exchange(price=..., payee=..., payer=...)
Exchange(price, payee, payer) == [price |-> price, payee |-> payee, payer |-> payer]

\* TmpSummary.__init__
TmpSummary(user, total) == [user |-> user, total |-> total]

\* TmpSummary.done
done(t) == t.total = 0

\* bigger(a, b): a if a.total >= b.total else b
bigger(x, y) == IF x.total >= y.total THEN x ELSE y

\* smaller(a, b): a if a.total <= b.total else b
smaller(x, y) == IF x.total <= y.total THEN x ELSE y

\* Variant of the guard: a strict comparison lets a zero total through.
InvalidResolve_strict(self, subject) == self.total * subject.total > 0

\* The guard of resolve: same sign, or either total is zero.
InvalidResolve(self, subject) == self.total * subject.total >= 0

\* Outcome of a resolve call: the two objects after the call, the returned
\* Exchange, and whether ValueError('invalid resolve') was raised.
Outcome(raised, self, subject, ex) ==
    [raised |-> raised, self |-> self, subject |-> subject, ex |-> ex]

\* payee / payer are read through bigger / smaller AFTER the totals were
\* assigned, exactly as in the three branches of the source.
Settle(price, self, subject) ==
    Outcome(FALSE, self, subject,
            Exchange(price, bigger(self, subject).user, smaller(self, subject).user))

\* Variant of resolve: branch 2 forgets the assignment self.total = 0.
resolve_keeps_self(self, subject) ==
    IF InvalidResolve(self, subject)
    THEN Outcome(TRUE, self, subject, NoExchange)
    ELSE IF self.total + subject.total = 0
    THEN Settle(Abs(self.total),
                [self EXCEPT !.total = 0],
                [subject EXCEPT !.total = 0])
    ELSE IF Abs(self.total) < Abs(subject.total)
    THEN Settle(Abs(self.total),
                self,
                [subject EXCEPT !.total = self.total + subject.total])
    ELSE Settle(Abs(subject.total),
                [self EXCEPT !.total = self.total + subject.total],
                [subject EXCEPT !.total = 0])

\* Variant of resolve: branch 2 takes its price from the other operand.
resolve_price_of_subject(self, subject) ==
    IF InvalidResolve(self, subject)
    THEN Outcome(TRUE, self, subject, NoExchange)
    ELSE IF self.total + subject.total = 0
    THEN Settle(Abs(self.total),
                [self EXCEPT !.total = 0],
                [subject EXCEPT !.total = 0])
    ELSE IF Abs(self.total) < Abs(subject.total)
    THEN Settle(Abs(subject.total),
                [self EXCEPT !.total = 0],
                [subject EXCEPT !.total = self.total + subject.total])
    ELSE Settle(Abs(subject.total),
                [self EXCEPT !.total = self.total + subject.total],
                [subject EXCEPT !.total = 0])

\* Variant of resolve: branch 3 subtracts instead of adding.
resolve_subtracts(self, subject) ==
    IF InvalidResolve(self, subject)
    THEN Outcome(TRUE, self, subject, NoExchange)
    ELSE IF self.total + subject.total = 0
    THEN Settle(Abs(self.total),
                [self EXCEPT !.total = 0],
                [subject EXCEPT !.total = 0])
    ELSE IF Abs(self.total) < Abs(subject.total)
    THEN Settle(Abs(self.total),
                [self EXCEPT !.total = 0],
                [subject EXCEPT !.total = self.total + subject.total])
    ELSE Settle(Abs(subject.total),
                [self EXCEPT !.total = self.total - subject.total],
                [subject EXCEPT !.total = 0])

\* Variant of resolve: branch 3 takes its price from the receiver.
resolve_price_of_self(self, subject) ==
    IF InvalidResolve(self, subject)
    THEN Outcome(TRUE, self, subject, NoExchange)
    ELSE IF self.total + subject.total = 0
    THEN Settle(Abs(self.total),
                [self EXCEPT !.total = 0],
                [subject EXCEPT !.total = 0])
    ELSE IF Abs(self.total) < Abs(subject.total)
    THEN Settle(Abs(self.total),
                [self EXCEPT !.total = 0],
                [subject EXCEPT !.total = self.total + subject.total])
    ELSE Settle(Abs(self.total),
                [self EXCEPT !.total = self.total + subject.total],
                [subject EXCEPT !.total = 0])

\* Variant of resolve: branch 1 reads its price after self.total = 0.
resolve_price_after_zeroing(self, subject) ==
    IF InvalidResolve(self, subject)
    THEN Outcome(TRUE, self, subject, NoExchange)
    ELSE IF self.total + subject.total = 0
    THEN Settle(Abs(0),
                [self EXCEPT !.total = 0],
                [subject EXCEPT !.total = 0])
    ELSE IF Abs(self.total) < Abs(subject.total)
    THEN Settle(Abs(self.total),
                [self EXCEPT !.total = 0],
                [subject EXCEPT !.total = self.total + subject.total])
    ELSE Settle(Abs(subject.total),
                [self EXCEPT !.total = self.total + subject.total],
                [subject EXCEPT !.total = 0])

\* TmpSummary.resolve(self, subject)
resolve(self, subject) ==
    IF InvalidResolve(self, subject)
    THEN Outcome(TRUE, self, subject, NoExchange)
    ELSE IF self.total + subject.total = 0
    THEN Settle(Abs(self.total),
                [self EXCEPT !.total = 0],
                [subject EXCEPT !.total = 0])
    ELSE IF Abs(self.total) < Abs(subject.total)
    THEN Settle(Abs(self.total),
                [self EXCEPT !.total = 0],
                [subject EXCEPT !.total = self.total + subject.total])
    ELSE Settle(Abs(subject.total),
                [self EXCEPT !.total = self.total + subject.total],
                [subject EXCEPT !.total = 0])

\* ------------------------------------------------------- PaymentSummary
RECURSIVE SumPrices(_)
\* sum(x.price for x in xs)
SumPrices(xs) == IF xs = <<>> THEN 0 ELSE Head(xs).price + SumPrices(Tail(xs))

\* AssetCollection.asset_sum
asset_sum(assets) == SumPrices(assets)

\* DebtCollection.debt_sum
debt_sum(debts) == SumPrices(debts)

\* PaymentSummary.total
total(ps) == asset_sum(ps.assets) - debt_sum(ps.debts)

\* PaymentSummary.total_abs
total_abs(ps) == Abs(total(ps))

\* Variant of tmp_summary: built from total_abs() instead of total().
tmp_summary_abs(ps) == TmpSummary(ps.user, total_abs(ps))

\* Variant of tmp_summary: the TmpSummary of an earlier call is kept and
\* handed out again.
tmp_summary_cached(ps) ==
    LET kept == {i \in 1..Len(tmps) : tmps[i].user = ps.user}
    IN  IF kept = {} THEN TmpSummary(ps.user, total(ps))
        ELSE tmps[CHOOSE i \in kept : TRUE]

\* PaymentSummary.tmp_summary
tmp_summary(ps) == TmpSummary(ps.user, total(ps))

\* A PaymentSummary of user u whose net balance is t: one Asset of t when t
\* is positive, one Debt of -t when t is negative, nothing when t is zero.
PaymentSummary(u, t) ==
    [user   |-> u,
     assets |-> IF t > 0 THEN <<[price |-> t, owner |-> u]>> ELSE <<>>,
     debts  |-> IF t < 0 THEN <<[price |-> -t, debtor |-> u]>> ELSE <<>>]

\* --------------------------------------------------- the settlement loop
\* unsettled = [t for t in tmps if not t.done()], as the list of the
\* positions in tmps of the objects it holds (the list holds references).
Unsettled(ts) ==
    SelectSeq([i \in 1..Len(ts) |-> i], LAMBDA i : ~done(ts[i]))

\* No object (Python's None) as a position.
None == 0

\* Variant of the first break: off by one.
TooFew_three(unsettled) == Len(unsettled) < 3

\* len(unsettled) < 2
TooFew(unsettled) == Len(unsettled) < 2


\* Variant of the scan for pos: the sign test is missing.
NextPos_any(ts, unsettled) ==
    IF unsettled = <<>> THEN None ELSE unsettled[1]

\* next((t for t in unsettled if t.total > 0), None)
NextPos(ts, unsettled) ==
    LET hits == {k \in 1..Len(unsettled) : ts[unsettled[k]].total > 0}
    IN  IF hits = {} THEN None
        ELSE unsettled[CHOOSE k \in hits : \A m \in hits : k <= m]

\* Variant of the scan for neg: the last match instead of the first.
NextNeg_last(ts, unsettled) ==
    LET hits == {k \in 1..Len(unsettled) : ts[unsettled[k]].total < 0}
    IN  IF hits = {} THEN None
        ELSE unsettled[CHOOSE k \in hits : \A m \in hits : k >= m]

\* Variant of the scan for neg: the largest debtor instead of the first.
NextNeg_largest(ts, unsettled) ==
    LET hits == {k \in 1..Len(unsettled) : ts[unsettled[k]].total < 0}
    IN  IF hits = {} THEN None
        ELSE unsettled[CHOOSE k \in hits : \A m \in hits :
                 \/ ts[unsettled[k]].total < ts[unsettled[m]].total
                 \/ (ts[unsettled[k]].total = ts[unsettled[m]].total /\ k <= m)]

\* next((t for t in unsettled if t.total < 0), None)
NextNeg(ts, unsettled) ==
    LET hits == {k \in 1..Len(unsettled) : ts[unsettled[k]].total < 0}
    IN  IF hits = {} THEN None
        ELSE unsettled[CHOOSE k \in hits : \A m \in hits : k <= m]

\* The while loop leaves through one of its two break statements.
Breaks(ts) ==
    LET unsettled == Unsettled(ts)
    IN  \/ TooFew(unsettled)
        \/ NextPos(ts, unsettled) = None
        \/ NextNeg(ts, unsettled) = None

\* ------------------------------------------------------------ the inputs
Totals == (0 - MaxTotal)..MaxTotal

Args == (0 - MaxArg)..MaxArg

\* Every list of at most MaxUsers balances.
BalanceLists == UNION {[1..n -> Totals] : n \in 0..MaxUsers}

\* The balances of users A, B, C of the documented scenario.
Scenario1 == <<1000, -300, -700>>

Idle == TmpSummary(0, 0)

\* No Event is under consideration, and no call was made on one.
NoEvent == [users |-> <<>>, payments |-> <<>>]

NoCall == [op |-> "none", arg |-> <<>>, raised |-> FALSE, value |-> <<>>]

\* A PaymentSummaryCollection has been constructed; exchnange not yet called.
Init ==
    /\ \E bal \in BalanceLists \cup {Scenario1} :
           summaries = [i \in 1..Len(bal) |-> PaymentSummary(i, bal[i])]
    /\ tmps = <<>>
    /\ exchanges = <<>>
    /\ pc = "ready"
    /\ a = Idle
    /\ b = Idle
    /\ args = <<0, 0>>
    /\ ret = NoExchange
    /\ rpc = "idle"
    /\ results = <<>>
    /\ event = NoEvent
    /\ out = NoCall

\* exchnange is entered: tmps and exchanges are built.
Enter ==
    /\ pc = "ready"
    /\ tmps' = [i \in 1..Len(summaries) |-> tmp_summary(summaries[i])]
    /\ exchanges' = <<>>
    /\ pc' = "loop"
    /\ UNCHANGED <<summaries, a, b, args, ret, rpc, results, event, out>>

\* One iteration that reaches exchanges.append(pos.resolve(neg)).
Iterate ==
    /\ pc = "loop"
    /\ ~Breaks(tmps)
    /\ LET unsettled == Unsettled(tmps)
           pos == NextPos(tmps, unsettled)
           neg == NextNeg(tmps, unsettled)
           r == resolve(tmps[pos], tmps[neg])
       IN  IF r.raised
           THEN /\ pc' = "raised"
                /\ UNCHANGED <<tmps, exchanges>>
           ELSE /\ tmps' = [tmps EXCEPT ![pos] = r.self, ![neg] = r.subject]
                /\ exchanges' = Append(exchanges, r.ex)
                /\ pc' = "loop"
    /\ UNCHANGED <<summaries, a, b, args, ret, rpc, results, event, out>>

\* One iteration that breaks; exchnange returns ExchangeCollection(exchanges).
Return ==
    /\ pc = "loop"
    /\ Breaks(tmps)
    /\ pc' = "done"
    /\ results' = Append(results, exchanges)
    /\ UNCHANGED <<summaries, tmps, exchanges, a, b, args, ret, rpc, event, out>>

Next == Enter \/ Iterate \/ Return

Spec == Init /\ [][Next]_vars

\* The loop is a sequential computation: it keeps running until it returns.
FairSpec == Spec /\ WF_vars(Next)

\* exchnange is called once more on the same collection.
Again ==
    /\ pc = "done"
    /\ Len(results) < MaxCalls
    /\ tmps' = [i \in 1..Len(summaries) |-> tmp_summary(summaries[i])]
    /\ exchanges' = <<>>
    /\ pc' = "loop"
    /\ UNCHANGED <<summaries, a, b, args, ret, rpc, results, event, out>>

AgainNext == Enter \/ Iterate \/ Return \/ Again

AgainSpec == Init /\ [][AgainNext]_vars

\* ------------------------------------------------- a direct resolve call
\* Two TmpSummary objects of users 1 and 2 have been constructed.
ResolveInit ==
    /\ summaries = <<>>
    /\ tmps = <<>>
    /\ exchanges = <<>>
    /\ pc = "idle"
    /\ \E ta \in Args, tb \in Args :
           /\ args = <<ta, tb>>
           /\ a = TmpSummary(1, ta)
           /\ b = TmpSummary(2, tb)
    /\ ret = NoExchange
    /\ rpc = "call"
    /\ results = <<>>
    /\ event = NoEvent
    /\ out = NoCall

\* ex = a.resolve(b)
Resolve ==
    /\ rpc = "call"
    /\ LET r == resolve(a, b)
       IN  /\ a' = r.self
           /\ b' = r.subject
           /\ ret' = r.ex
           /\ rpc' = IF r.raised THEN "raised" ELSE "returned"
    /\ UNCHANGED <<summaries, tmps, exchanges, pc, args, results, event, out>>

ResolveNext == Resolve

ResolveSpec == ResolveInit /\ [][ResolveNext]_vars

\* ---------------------------------------------------------------- Event
\* User(id=..., name=...)
User(id, name) == [id |-> id, name |-> name]

\* Variant of alike: the whole User is compared, name included.
alike_whole(self, other) == self = other

\* User.alike
alike(self, other) == self.id = other.id

\* Asset(price=..., owner=...)
Asset(price, owner) == [price |-> price, owner |-> owner]

\* Debt(price=..., debtor=...)
Debt(price, debtor) == [price |-> price, debtor |-> debtor]

\* Payment(id=..., price=..., payer=..., payees=...)
Payment(id, price, payer, payees) ==
    [id |-> id, price |-> price, payer |-> payer, payees |-> payees]

\* Variant of debt: the share is rounded up.
debt_rounded_up(p, u) ==
    LET divider == Len(p.payees)
        per == (p.price + divider - 1) \div divider
    IN  Debt(per, u)

\* Payment.debt (// is floor division)
debt(p, u) ==
    LET divider == Len(p.payees)
        per == p.price \div divider
    IN  Debt(per, u)

\* Payment.asset
asset(p, u) == Asset(p.price, u)

\* any(x.alike(u) for x in xs)
any_alike(xs, u) == \E i \in 1..Len(xs) : alike(xs[i], u)

\* Result of a call on an Event: a value, or ValueError("user not found").
Returned(value) == [raised |-> FALSE, value |-> value]

UserNotFound == [raised |-> TRUE, value |-> <<>>]

\* Event.debt_for_user
debt_for_user(e, u) ==
    IF ~any_alike(e.users, u)
    THEN UserNotFound
    ELSE LET owed == SelectSeq(e.payments, LAMBDA p : any_alike(p.payees, u))
         IN  Returned([k \in 1..Len(owed) |-> debt(owed[k], u)])

\* Event.assets_for_user
assets_for_user(e, u) ==
    IF ~any_alike(e.users, u)
    THEN UserNotFound
    ELSE LET paid == SelectSeq(e.payments, LAMBDA p : alike(p.payer, u))
         IN  Returned([k \in 1..Len(paid) |-> asset(paid[k], u)])

\* Variant of payment_summaries: only the users who paid get a summary.
payment_summaries_of_payers(e) ==
    LET payers == SelectSeq(e.users,
                      LAMBDA u : \E k \in 1..Len(e.payments) : alike(e.payments[k].payer, u))
    IN  [i \in 1..Len(payers) |->
            LET u == payers[i]
                paid == SelectSeq(e.payments, LAMBDA p : alike(p.payer, u))
                owed == SelectSeq(e.payments, LAMBDA p : any_alike(p.payees, u))
            IN  [user   |-> u,
                 assets |-> [k \in 1..Len(paid) |-> asset(paid[k], u)],
                 debts  |-> [k \in 1..Len(owed) |-> debt(owed[k], u)]]]

\* Event.payment_summaries
payment_summaries(e) ==
    [i \in 1..Len(e.users) |->
        LET u == e.users[i]
            paid == SelectSeq(e.payments, LAMBDA p : alike(p.payer, u))
            owed == SelectSeq(e.payments, LAMBDA p : any_alike(p.payees, u))
        IN  [user   |-> u,
             assets |-> [k \in 1..Len(paid) |-> asset(paid[k], u)],
             debts  |-> [k \in 1..Len(owed) |-> debt(owed[k], u)]]]

\* The ids users are drawn from.
UserIds == {1, 2}

\* The name of the users of a roster and of a payment, and another name.
Names == {"n", "x"}

Member(id) == User(id, "n")

\* Every list of at most MaxLen elements of S.
Lists(S, MaxLen) == UNION {[1..n -> S] : n \in 0..MaxLen}

\* Rosters: the lists of users whose ids are pairwise different.
Rosters ==
    {r \in Lists({Member(id) : id \in UserIds}, Cardinality(UserIds)) :
        \A i, j \in 1..Len(r) : r[i].id = r[j].id => i = j}

\* The payments an Event may hold at position k.
Payments(k) ==
    {Payment(k, price, Member(payer), payees) :
        price \in 1..MaxPrice,
        payer \in UserIds,
        payees \in Lists({Member(id) : id \in UserIds}, MaxPayees)}

PaymentLists ==
    UNION {{ps \in [1..n -> UNION {Payments(k) : k \in 1..n}] :
                \A k \in 1..n : ps[k].id = k} : n \in 0..MaxPayments}

\* The users a caller may ask about: any id, under either name.
QueryUsers == {User(id, name) : id \in UserIds, name \in Names}

\* An Event has been constructed.
EventInit ==
    /\ \E users \in Rosters, payments \in PaymentLists :
           event = [users |-> users, payments |-> payments]
    /\ out = NoCall
    /\ summaries = <<>>
    /\ tmps = <<>>
    /\ exchanges = <<>>
    /\ pc = "idle"
    /\ results = <<>>
    /\ a = Idle
    /\ b = Idle
    /\ args = <<0, 0>>
    /\ ret = NoExchange
    /\ rpc = "idle"

Call(op, arg, r) == [op |-> op, arg |-> arg, raised |-> r.raised, value |-> r.value]

\* summaries = event.payment_summaries()
PaymentSummaries ==
    /\ out.op = "none"
    /\ summaries' = payment_summaries(event)
    /\ out' = Call("payment_summaries", <<>>, Returned(<<>>))
    /\ UNCHANGED <<tmps, exchanges, pc, a, b, args, ret, rpc, results, event>>

\* event.debt_for_user(u)
DebtForUser ==
    /\ out.op = "none"
    /\ \E u \in QueryUsers : out' = Call("debt_for_user", u, debt_for_user(event, u))
    /\ UNCHANGED <<summaries, tmps, exchanges, pc, a, b, args, ret, rpc, results, event>>

\* event.assets_for_user(u)
AssetsForUser ==
    /\ out.op = "none"
    /\ \E u \in QueryUsers : out' = Call("assets_for_user", u, assets_for_user(event, u))
    /\ UNCHANGED <<summaries, tmps, exchanges, pc, a, b, args, ret, rpc, results, event>>

\* [p.debt(payee) for payee in p.payees] for one payment p of the event.
Split ==
    /\ out.op = "none"
    /\ \E k \in 1..Len(event.payments) :
           LET p == event.payments[k]
           IN  out' = Call("debt", k,
                           Returned([j \in 1..Len(p.payees) |-> debt(p, p.payees[j])]))
    /\ UNCHANGED <<summaries, tmps, exchanges, pc, a, b, args, ret, rpc, results, event>>

EventNext == PaymentSummaries \/ DebtForUser \/ AssetsForUser \/ Split

EventSpec == EventInit /\ [][EventNext]_vars

\* ------------------------------------------------ vocabulary of the claims
RECURSIVE SumSeq(_)
SumSeq(xs) == IF xs = <<>> THEN 0 ELSE Head(xs) + SumSeq(Tail(xs))

\* The net balances the run started from, in roster order.
Balances == [i \in 1..Len(summaries) |-> total(summaries[i])]

\* The working totals, in roster order.
Working == [i \in 1..Len(tmps) |-> tmps[i].total]

SumPositive(xs) == SumSeq([i \in 1..Len(xs) |-> IF xs[i] > 0 THEN xs[i] ELSE 0])

SumNegativeAbs(xs) == SumSeq([i \in 1..Len(xs) |-> IF xs[i] < 0 THEN -xs[i] ELSE 0])

\* Positions of the entries that are not settled.
Open(xs) == {i \in 1..Len(xs) : xs[i] # 0}

\* One exchange applied to a list of balances: the payee's balance decreases
\* by price, then the payer's balance increases by price.
Pay(bal, ex) ==
    LET paid == [bal EXCEPT ![ex.payee] = @ - ex.price]
    IN  [paid EXCEPT ![ex.payer] = @ + ex.price]

RECURSIVE Replay(_, _)
Replay(bal, exs) ==
    IF exs = <<>> THEN bal ELSE Replay(Pay(bal, Head(exs)), Tail(exs))

\* ------------------------------------------------------------------- C1
\* C1: when exchnange has returned, replaying its exchanges against the
\* initial balances (payee minus price, payer plus price) gives every user
\* the total left in that user's TmpSummary; with a zero-sum input every
\* replayed balance is zero.
C1_ReplayMatchesWorking ==
    pc = "done" =>
        /\ Replay(Balances, exchanges) = Working
        /\ (SumSeq(Balances) = 0 =>
                \A i \in 1..Len(Balances) : Replay(Balances, exchanges)[i] = 0)

\* ------------------------------------------------------------------- C2
\* C2 (as stated): when exchnange has returned for a list of n balances it
\* has emitted at most n-1 exchanges.
C2_AtMostNMinusOne ==
    pc = "done" => Len(exchanges) <= Len(summaries) - 1

\* C2 (amended): the loop terminates; it never holds more than n-1
\* exchanges for n >= 1 users and none for the empty list; and every
\* resolution lowers the number of unsettled entries by at least one.
C2_TerminatesWithinBound ==
    /\ <>(pc = "done")
    /\ [](Len(exchanges) <= IF Len(summaries) = 0 THEN 0 ELSE Len(summaries) - 1)
    /\ [][Len(exchanges') > Len(exchanges)
            => Len(Unsettled(tmps')) < Len(Unsettled(tmps))]_vars

\* A run of three or more users that used all of its n-1 exchanges.
C2_Witness ==
    /\ pc = "done"
    /\ Len(summaries) >= 3
    /\ Len(exchanges) = Len(summaries) - 1

\* ------------------------------------------------------------------- C3
\* C3: whenever resolve returns an Exchange for an opposite-sign pair, the
\* payee is the operand that was strictly positive before the call, the
\* payer the operand that was strictly negative, and the two differ.
C3_PayeeCreditorPayerDebtor ==
    rpc = "returned" =>
        /\ ret.payee = (IF args[1] > 0 THEN a.user ELSE b.user)
        /\ ret.payer = (IF args[1] < 0 THEN a.user ELSE b.user)
        /\ ret.payee # ret.payer

\* ------------------------------------------------------------------- C4
\* C4: when exchnange has returned, the prices of its exchanges sum to
\* min(sum of the positive initial totals, sum of |negative initial totals|).
C4_PricesSumToMin ==
    pc = "done" =>
        SumPrices(exchanges) = Min(SumPositive(Balances), SumNegativeAbs(Balances))

\* A run of three exchanges whose two sides are unequal.
C4_Witness ==
    /\ pc = "done"
    /\ Len(exchanges) = 3
    /\ SumPositive(Balances) # SumNegativeAbs(Balances)

\* ------------------------------------------------------------------- C5
\* C5: when the loop has stopped, the working totals do not hold both a
\* strictly positive and a strictly negative entry; after a zero-sum input
\* every working total is zero.
C5_NoMixedSignsAtStop ==
    pc = "done" =>
        /\ ~ (/\ \E i \in 1..Len(Working) : Working[i] > 0
              /\ \E j \in 1..Len(Working) : Working[j] < 0)
        /\ (SumSeq(Balances) = 0 => \A i \in 1..Len(Working) : Working[i] = 0)

\* A zero-sum run of four unsettled users that has stopped.
C5_Witness ==
    /\ pc = "done"
    /\ SumSeq(Balances) = 0
    /\ Cardinality(Open(Balances)) = 4
    /\ Len(exchanges) >= 2

\* ------------------------------------------------------------------- C6
\* C6 (as stated): after an input that does not sum to zero the loop stops
\* with exactly one unsettled entry, which carries the whole residual.
C6_ExactlyOneResidual ==
    (pc = "done" /\ SumSeq(Balances) # 0) =>
        /\ Cardinality(Open(Working)) = 1
        /\ \A i \in Open(Working) : Working[i] = SumSeq(Balances)

\* C6 (amended): after an input that does not sum to zero the loop stops
\* with one or more unsettled entries, all of the sign of the residual,
\* whose totals add up to the whole residual.
C6_ResidualSameSign ==
    (pc = "done" /\ SumSeq(Balances) # 0) =>
        /\ Open(Working) # {}
        /\ \A i \in Open(Working) : Working[i] * SumSeq(Balances) > 0
        /\ SumSeq(Working) = SumSeq(Balances)

\* A run that resolved something and stopped with two unsettled entries.
C6_Witness ==
    /\ pc = "done"
    /\ SumSeq(Balances) # 0
    /\ Len(exchanges) >= 1
    /\ Cardinality(Open(Working)) = 2

\* ------------------------------------------------------------------- C7
\* C7: after a.resolve(b) on totals of opposite signs, the operand with the
\* smaller absolute total is 0 and the other is a_before + b_before (both
\* are 0 when the absolute totals are equal), whoever is the receiver and
\* whoever is the positive one.
C7_SmallerAbsorbed ==
    (rpc # "call" /\ args[1] * args[2] < 0) =>
        /\ Abs(args[1]) < Abs(args[2]) =>
               (a.total = 0 /\ b.total = args[1] + args[2])
        /\ Abs(args[2]) < Abs(args[1]) =>
               (b.total = 0 /\ a.total = args[1] + args[2])
        /\ Abs(args[1]) = Abs(args[2]) => (a.total = 0 /\ b.total = 0)

\* The receiver was the negative and the larger one; the argument was absorbed.
C7_Witness ==
    /\ rpc = "returned"
    /\ args[1] < 0
    /\ Abs(args[2]) < Abs(args[1])
    /\ b.total = 0
    /\ a.total < 0

\* ------------------------------------------------------------------- C8
\* C8: after a.resolve(b) on totals of opposite signs at least one total is
\* 0, the returned price is overlap = min(|a_before|, |b_before|), and
\* |a_after| + |b_after| + 2*overlap = |a_before| + |b_before|.
C8_OverlapAccounting ==
    (rpc # "call" /\ args[1] * args[2] < 0) =>
        LET overlap == Min(Abs(args[1]), Abs(args[2]))
        IN  /\ rpc = "returned"
            /\ (a.total = 0 \/ b.total = 0)
            /\ ret.price = overlap
            /\ Abs(a.total) + Abs(b.total) + 2 * overlap
                   = Abs(args[1]) + Abs(args[2])

\* The receiver was the positive and the larger one; part of it is left.
C8_Witness ==
    /\ rpc = "returned"
    /\ args[1] > 0
    /\ a.total > 0
    /\ ret.price = Abs(args[2])

\* ------------------------------------------------------------------- C9
\* C9: a.resolve(b) on totals of the same sign, or with a zero total, raises
\* the invalid-resolve error, returns no Exchange and changes neither total.
C9_InvalidPairRaises ==
    (rpc # "call" /\ args[1] * args[2] >= 0) =>
        /\ rpc = "raised"
        /\ ret = NoExchange
        /\ a.total = args[1]
        /\ b.total = args[2]

\* The call was made with a zero receiver and a non-zero argument.
C9_Witness ==
    /\ rpc = "raised"
    /\ args[1] = 0
    /\ args[2] # 0

\* ------------------------------------------------------------------ C10
\* C10: no resolve call of the settlement loop raises the invalid-resolve
\* error: the pair the loop is about to pass to resolve always has one
\* strictly positive and one strictly negative total.
C10_LoopNeverRaises ==
    /\ pc # "raised"
    /\ (pc = "loop" /\ ~Breaks(tmps)) =>
           LET unsettled == Unsettled(tmps)
               pos == tmps[NextPos(tmps, unsettled)]
               neg == tmps[NextNeg(tmps, unsettled)]
           IN  pos.total > 0 /\ neg.total < 0

\* A run over a list with a settled user and a non-zero sum that resolved twice.
C10_Witness ==
    /\ pc = "done"
    /\ \E i \in 1..Len(Balances) : Balances[i] = 0
    /\ SumSeq(Balances) # 0
    /\ Len(exchanges) >= 2

\* ------------------------------------------------------------------ C11
\* C11: every Exchange the settlement loop has emitted has price > 0.
C11_PricesPositive ==
    \A k \in 1..Len(exchanges) : exchanges[k].price > 0

\* A returned run that emitted an exact cancellation after a partial one.
C11_Witness ==
    /\ pc = "done"
    /\ Len(exchanges) >= 2
    /\ \A i \in 1..Len(Working) : Working[i] = 0

\* ------------------------------------------------------------------ C13
\* C13: from balances [A:+1000, B:-300, C:-700] exchnange returns exactly
\* {300, payee A, payer B} and then {700, payee A, payer C}, and the three
\* working totals end at 0.
C13_Scenario1 ==
    (pc = "done" /\ Balances = Scenario1) =>
        /\ exchanges = <<Exchange(300, 1, 2), Exchange(700, 1, 3)>>
        /\ Working = <<0, 0, 0>>

\* ------------------------------------------------------------------ C15
\* Two orderings of the multiset {2, 1, -1, -2}.
OrderA == <<2, 1, -1, -2>>

OrderB == <<2, 1, -2, -1>>

\* C15: the number of exchanges depends on the order of the roster: the
\* same multiset of balances settles in three exchanges in the order
\* OrderA and in two in the order OrderB.
C15_CountDependsOnOrder ==
    pc = "done" =>
        /\ Balances = OrderA => Len(exchanges) = 3
        /\ Balances = OrderB => Len(exchanges) = 2

\* The run on OrderA has returned with its three exchanges.
C15_Witness ==
    /\ pc = "done"
    /\ Balances = OrderA
    /\ Len(exchanges) = 3

\* ------------------------------------------------------------------ C18
\* Lowest roster position whose entry satisfies the sign test, 0 if none.
LowestIndex(xs, positive) ==
    LET hits == {i \in 1..Len(xs) : IF positive THEN xs[i] > 0 ELSE xs[i] < 0}
    IN  IF hits = {} THEN 0 ELSE CHOOSE i \in hits : \A m \in hits : i <= m

\* C18: every iteration that emits an exchange resolves the lowest-index
\* entry with total > 0 against the lowest-index entry with total < 0, and
\* the call is pos.resolve(neg): the positive entry is the receiver.
C18_FirstPairResolved ==
    [][(pc = "loop" /\ Len(exchanges') = Len(exchanges) + 1) =>
          LET i == LowestIndex(Working, TRUE)
              j == LowestIndex(Working, FALSE)
          IN  /\ i # 0
              /\ j # 0
              /\ LET r == resolve(tmps[i], tmps[j])
                 IN  /\ tmps' = [tmps EXCEPT ![i] = r.self, ![j] = r.subject]
                     /\ exchanges' = Append(exchanges, r.ex)]_vars

\* The first pair was users 1 (debtor) and 3 (creditor): position 2 was
\* skipped by the scan for pos.
C18_Witness ==
    /\ Len(exchanges) >= 1
    /\ Len(Balances) >= 3
    /\ Balances[1] < 0
    /\ Balances[2] < 0
    /\ exchanges[1].payee = 3
    /\ exchanges[1].payer = 1

\* ------------------------------------------------------------------ C19
\* C19: in every iteration no working total changes sign or grows in
\* magnitude (an entry >= 0 stays >= 0 and does not increase, an entry <= 0
\* stays <= 0 and does not decrease, 0 stays 0), and only the two entries
\* the iteration pairs change.
C19_TotalsShrinkTowardsZero ==
    [][(pc = "loop" /\ pc' = "loop") =>
          /\ Len(tmps') = Len(tmps)
          /\ \A i \in 1..Len(tmps) :
                 /\ tmps'[i].user = tmps[i].user
                 /\ tmps[i].total >= 0 =>
                        (0 <= tmps'[i].total /\ tmps'[i].total <= tmps[i].total)
                 /\ tmps[i].total <= 0 =>
                        (tmps[i].total <= tmps'[i].total /\ tmps'[i].total <= 0)
          /\ {i \in 1..Len(tmps) : tmps'[i] # tmps[i]}
                 \subseteq {LowestIndex(Working, TRUE), LowestIndex(Working, FALSE)}]_vars

\* Two iterations have run and some entry is partly, not fully, absorbed.
C19_Witness ==
    /\ pc = "loop"
    /\ Len(exchanges) >= 2
    /\ \E i \in 1..Len(Working) : Working[i] # 0 /\ Working[i] # Balances[i]

\* ------------------------------------------------------------------ C20
\* C20: every call of exchnange starts from a working set freshly built
\* from the summaries, no step changes a PaymentSummary of the collection,
\* and successive calls on one collection return identical sequences.
C20_CallsRepeatable ==
    /\ [][summaries' = summaries]_vars
    /\ []((pc = "loop" /\ exchanges = <<>>) => Working = Balances)
    /\ [](\A i, j \in 1..Len(results) : results[i] = results[j])

\* The second call has returned, each call with two or more exchanges.
C20_Witness ==
    /\ pc = "done"
    /\ Len(results) = 2
    /\ Len(results[1]) >= 2

\* ------------------------------------------------------------------ C12
\* The ids of the roster of an Event.
RosterIds(e) == {e.users[i].id : i \in 1..Len(e.users)}

\* The roster has unique ids, and every payment has a positive price, a
\* payer in the roster and a non-empty list of payees of the roster.
WellFormed(e) ==
    /\ \A i, j \in 1..Len(e.users) : e.users[i].id = e.users[j].id => i = j
    /\ \A k \in 1..Len(e.payments) :
           LET p == e.payments[k]
           IN  /\ p.price > 0
               /\ p.payer.id \in RosterIds(e)
               /\ p.payees # <<>>
               /\ \A j \in 1..Len(p.payees) : p.payees[j].id \in RosterIds(e)

\* C12: for a well-formed Event the totals of the summaries returned by
\* payment_summaries add up to the sum over the payments of
\* price % len(payees).
C12_TotalsSumToRemainders ==
    (out.op = "payment_summaries" /\ WellFormed(event)) =>
        SumSeq([i \in 1..Len(summaries) |-> total(summaries[i])])
            = SumSeq([k \in 1..Len(event.payments) |->
                         event.payments[k].price % Len(event.payments[k].payees)])

\* ------------------------------------------------------------------ C14
\* C14: debt_for_user and assets_for_user raise the user-not-found error
\* exactly when the id of the user asked about is absent from the roster,
\* whatever the payments hold and whatever the user's name.
C14_NotFoundIffAbsent ==
    out.op \in {"debt_for_user", "assets_for_user"} =>
        (out.raised <=> out.arg.id \notin RosterIds(event))

\* The call raised for an id that is payer and payee of a payment.
C14_Witness ==
    /\ out.op \in {"debt_for_user", "assets_for_user"}
    /\ out.raised
    /\ \E k \in 1..Len(event.payments) :
           /\ event.payments[k].payer.id = out.arg.id
           /\ \E j \in 1..Len(event.payments[k].payees) :
                  event.payments[k].payees[j].id = out.arg.id

\* ------------------------------------------------------------------ C16
\* C16: payment_summaries returns one PaymentSummary per roster entry, in
\* roster order, whose assets and debts are the lists assets_for_user and
\* debt_for_user return for that roster user.
C16_SummariesMatchLookups ==
    out.op = "payment_summaries" =>
        /\ Len(summaries) = Len(event.users)
        /\ \A i \in 1..Len(event.users) :
               LET u == event.users[i]
               IN  /\ summaries[i].user = u
                   /\ ~assets_for_user(event, u).raised
                   /\ ~debt_for_user(event, u).raised
                   /\ summaries[i].assets = assets_for_user(event, u).value
                   /\ summaries[i].debts = debt_for_user(event, u).value

\* Summaries of the roster <<2, 1>>: user 1 owes a share and paid nothing.
C16_Witness ==
    /\ out.op = "payment_summaries"
    /\ Len(summaries) = 2
    /\ summaries[1].user.id = 2
    /\ summaries[2].assets = <<>>
    /\ summaries[2].debts # <<>>

\* ------------------------------------------------------------------ C17
\* C17: for a payment of n >= 1 payees the prices of debt(payee) over the n
\* entries of payees add up to (price // n) * n, which is at most price and
\* equals price exactly when price % n = 0.
C17_SharesSumBelowPrice ==
    (out.op = "debt" /\ Len(event.payments[out.arg].payees) >= 1) =>
        LET p == event.payments[out.arg]
            n == Len(p.payees)
            shares == SumPrices(out.value)
        IN  /\ Len(out.value) = n
            /\ shares = (p.price \div n) * n
            /\ shares <= p.price
            /\ p.price - shares = p.price % n
            /\ (shares = p.price <=> p.price % n = 0)

\* Two payees share an odd price: one unit is attributed to nobody.
C17_Witness ==
    /\ out.op = "debt"
    /\ Len(out.value) = 2
    /\ SumPrices(out.value) = event.payments[out.arg].price - 1

====
